---- MODULE Spec2Model ----
(***************************************************************************)
(* mERRANT (multilingual/merrant): the sequence aligner (utils.py), the    *)
(* span classifier (classification.py) and the Annotator (api.py).         *)
(*                                                                         *)
(* Costs are integers in tenths (1.0 is 10, 0.1 is 1).  Every cost the     *)
(* code adds is a multiple of 0.1 below 2^53/10, and the comparisons the   *)
(* claims rest on (an alignment point needs a zero substitution cost) do   *)
(* not depend on the rounding of the last bit.                             *)
(*                                                                         *)
(* A text is a sequence of one-character strings, so that lower-casing,    *)
(* concatenation and character distance are computed and not assumed.      *)
(***************************************************************************)
EXTENDS Integers, Sequences, FiniteSets, TLC

VARIABLES
  pc,              \* "input" before a call, "done" after it; "idle" for the Annotator
  source_tokens,   \* get_edit_spans: source Doc (sequence of tokens)
  target_tokens,   \* get_edit_spans: target Doc
  lev_mat,         \* get_edit_spans: the matrix of levenshtein_matrix
  align,           \* get_edit_spans: alignment points, (m, n) appended
  spans,           \* get_edit_spans: the returned list of EditSpans
  tag_writes,      \* Classifier.classify: assignments to each span's tag
  span_source,     \* classify_single_span: tokens of edit_span.source_span
  span_target,     \* classify_single_span: tokens of edit_span.target_span
  _aspell,         \* GenericClassifier._aspell: "None" or "Speller"
  suggested,       \* what _aspell.suggest returned, <<>> when it was not called
  tag,             \* classify_single_span: the returned tag
  _aspell_lang,    \* Annotator._aspell_lang: "None" or "en"
  _initialized,    \* Annotator._initialized
  _nlp,            \* Annotator._nlp: "None" or "Language"
  _classifier,     \* Annotator._classifier: "None" or "GenericClassifier"
  init_completed,  \* history: some initialize() call has returned
  last_call,       \* the last call on the Annotator and its arguments
  raised,          \* the exception the last call raised, "None" if none
  annotation,      \* the Annotation the last call returned, or NoAnnotation
  nlp_calls,       \* tokenizer runs (self._nlp(...)) during the last call
  formatter_name,  \* make_formatter: "M2_CHAR" or "M2_TOK", "None" if none made
  formatted,       \* format: the Annotation it is given
  m2_lines,        \* format: the lines of the returned text, joined by "\n"
  sub_cost,        \* levenshtein_matrix: its argument compare_func
  lev_distance,    \* levenshtein_distance: the returned distance
  target_sentence_tsv, \* make_sentence_pairs: lines of the target file
  edits_tsv,       \* make_sentence_pairs: lines of the edits file
  output_tsv,      \* make_sentence_pairs: lines written to the output file
  main_raised      \* make_sentence_pairs: the exception main ended with

alignVars == <<source_tokens, target_tokens, lev_mat, align, spans, tag_writes>>
classifyVars == <<span_source, span_target, _aspell, suggested, tag>>
annotatorVars == <<_aspell_lang, _initialized, _nlp, _classifier>>
observedVars == <<init_completed, last_call, raised, annotation, nlp_calls>>
formatVars == <<formatter_name, formatted, m2_lines>>
levVars == <<sub_cost, lev_distance>>
pairsVars == <<target_sentence_tsv, edits_tsv, output_tsv, main_raised>>
vars ==
  <<pc, alignVars, classifyVars, annotatorVars, observedVars, formatVars, levVars,
    pairsVars>>

\* ------------------------------------------------------------------ bounds

MaxAlignLen == 3
MaxSpanLen == 2
MaxSuggestions == 2
MaxTargets == 2
MaxDocLen == 2
MaxTargetLines == 2
MaxEditLines == 2

\* ------------------------------------------------------------- characters

\* str.lower() on one character; A and B are the upper-case characters of
\* the texts used here
LowerChar(c) ==
  CASE c = "A" -> "a"
    [] c = "B" -> "b"
    [] OTHER -> c

\* str.lower(): token.lower_ / token.text.lower()
Lower(text) == [i \in 1..Len(text) |-> LowerChar(text[i])]

\* ---------------------------------------------------------------- tokens

\* spacy.tokens.Token as the code reads it: text, lemma, pos_ and the
\* "Tense", "Number", "Person" entries of morph (each a list of values).
Tok(text, lemma, pos, tense, number, person) ==
  [text |-> text, lemma |-> lemma, pos |-> pos,
   Tense |-> tense, Number |-> number, Person |-> person]

\* a token without morphology
PlainTok(text, lemma, pos) == Tok(text, lemma, pos, <<>>, <<>>, <<>>)

\* ---------------------------------------------------------- levenshtein

\* the 1.0 of an insertion or a deletion, in tenths
InsDelCost == 10

Min3(a, b, c) ==
  IF a <= b /\ a <= c THEN a ELSE IF b <= c THEN b ELSE c

\* CurrentRow taking the substitution from previous_row[j + 1]
RECURSIVE CurrentRow_sub_from_above(_, _, _, _, _, _)
CurrentRow_sub_from_above(previous_row, source, i, target, compare_func, current_row) ==
  IF Len(current_row) = Len(target) + 1 THEN current_row
  ELSE LET j == Len(current_row)
           insertions == previous_row[j + 1] + InsDelCost
           deletions == current_row[j] + InsDelCost
           substitutions ==
             previous_row[j + 1] + compare_func[<<source[i], target[j]>>]
       IN CurrentRow_sub_from_above(previous_row, source, i, target, compare_func,
                     Append(current_row, Min3(insertions, deletions, substitutions)))

\* the inner for loop of levenshtein_matrix (utils.py 105-109): current_row
\* holds the indices 0..j-1 when element j is appended; i is the 1-based
\* position of c1 in source, so that current_row starts as [i]
RECURSIVE CurrentRow(_, _, _, _, _, _)
CurrentRow(previous_row, source, i, target, compare_func, current_row) ==
  IF Len(current_row) = Len(target) + 1 THEN current_row
  ELSE LET j == Len(current_row)
           insertions == previous_row[j + 1] + InsDelCost
           deletions == current_row[j] + InsDelCost
           substitutions ==
             previous_row[j] + compare_func[<<source[i], target[j]>>]
       IN CurrentRow(previous_row, source, i, target, compare_func,
                     Append(current_row, Min3(insertions, deletions, substitutions)))

\* the outer for loop of levenshtein_matrix (utils.py 103-111)
RECURSIVE MatRows(_, _, _, _)
MatRows(source, target, compare_func, mat) ==
  IF Len(mat) = Len(source) + 1 THEN mat
  ELSE LET i == Len(mat)
       IN MatRows(source, target, compare_func,
                  Append(mat, CurrentRow(mat[i], source, i, target, compare_func,
                                         <<i * InsDelCost>>)))

\* levenshtein_matrix: compare_func is a function on pairs <<c1, c2>>.
\* Row i+1 of the result is mat[i] of the code and element j+1 of a row is
\* its index j.
levenshtein_matrix(source, target, compare_func) ==
  MatRows(source, target, compare_func,
          <<[j \in 1..(Len(target) + 1) |-> (j - 1) * InsDelCost]>>)

\* levenshtein_distance: mat[-1][-1]
levenshtein_distance(source, target, compare_func) ==
  LET mat == levenshtein_matrix(source, target, compare_func)
  IN mat[Len(mat)][Len(mat[Len(mat)])]

\* _token_sub_cost without its first test: identical texts cost 0.1
_token_sub_cost_no_identity(source_token, target_token) ==
  IF Lower(source_token.text) = Lower(target_token.text) THEN 1
  ELSE LET lemma_cost == IF source_token.lemma # target_token.lemma THEN 3 ELSE 0
           pos_cost == IF source_token.pos # target_token.pos THEN 5 ELSE 0
       IN 2 + lemma_cost + pos_cost

\* _token_sub_cost, in tenths
_token_sub_cost(source_token, target_token) ==
  IF source_token.text = target_token.text THEN 0
  ELSE IF Lower(source_token.text) = Lower(target_token.text) THEN 1
  ELSE LET lemma_cost == IF source_token.lemma # target_token.lemma THEN 3 ELSE 0
           pos_cost == IF source_token.pos # target_token.pos THEN 5 ELSE 0
       IN 2 + lemma_cost + pos_cost

\* the callable _token_sub_cost as get_edit_spans passes it
TokenCostFunc(source, target) ==
  [p \in {<<source[i], target[j]>> : i \in 1..Len(source), j \in 1..Len(target)} |->
     _token_sub_cost(p[1], p[2])]

\* ------------------------------------------------------- get_edit_spans

\* EditSpan: source_span and target_span as their (start, end) token
\* indices into the two Docs, and the tag (UNK_TAG_NAME until classified)
EditSpan(source_start, source_end, target_start, target_end) ==
  [source_start |-> source_start, source_end |-> source_end,
   target_start |-> target_start, target_end |-> target_end, tag |-> "UNK"]

\* Doc[start:end] as the sequence of its tokens
Slice(doc, start, end) == SubSeq(doc, start + 1, end)

Reverse(s) == [i \in 1..Len(s) |-> s[Len(s) + 1 - i]]

\* Backtrace appending every diagonal step as an alignment point
RECURSIVE Backtrace_every_diagonal(_, _, _, _)
Backtrace_every_diagonal(mat, row, col, acc) ==
  IF row * col = 0 THEN acc
  ELSE IF mat[row][col + 1] < mat[row + 1][col + 1]
       THEN Backtrace_every_diagonal(mat, row - 1, col, acc)
  ELSE IF mat[row + 1][col] < mat[row + 1][col + 1]
       THEN Backtrace_every_diagonal(mat, row, col - 1, acc)
  ELSE Backtrace_every_diagonal(mat, row - 1, col - 1,
                                Append(acc, <<row - 1, col - 1>>))

\* the while loop of get_edit_spans (utils.py 164-173): the alignment
\* points in the order the loop appends them. lev_mat[r][c] is mat[r+1][c+1].
RECURSIVE Backtrace(_, _, _, _)
Backtrace(mat, row, col, acc) ==
  IF row * col = 0 THEN acc
  ELSE IF mat[row][col + 1] < mat[row + 1][col + 1]
       THEN Backtrace(mat, row - 1, col, acc)
  ELSE IF mat[row + 1][col] < mat[row + 1][col + 1]
       THEN Backtrace(mat, row, col - 1, acc)
  ELSE IF mat[row][col] = mat[row + 1][col + 1]
       THEN Backtrace(mat, row - 1, col - 1, Append(acc, <<row - 1, col - 1>>))
  ELSE Backtrace(mat, row - 1, col - 1, acc)

\* AlignPoints without the appended sentence end
AlignPoints_no_end(mat, m, n) == Reverse(Backtrace(mat, m, n, <<>>))

\* align after align.reverse() and align.append((len(source), len(target)))
AlignPoints(mat, m, n) ==
  Append(Reverse(Backtrace(mat, m, n, <<>>)), <<m, n>>)

\* SpanStep with the spans starting at the previous alignment point
SpanStep_from_prev(acc, prev_source_pos, prev_target_pos, source_pos, target_pos) ==
  IF prev_source_pos + 1 # source_pos \/ prev_target_pos + 1 # target_pos
  THEN Append(acc, EditSpan(IF prev_source_pos < 0 THEN 0 ELSE prev_source_pos,
                            source_pos,
                            IF prev_target_pos < 0 THEN 0 ELSE prev_target_pos,
                            target_pos))
  ELSE acc

\* SpanStep without the test for a gap
SpanStep_always(acc, prev_source_pos, prev_target_pos, source_pos, target_pos) ==
  Append(acc, EditSpan(prev_source_pos + 1, source_pos,
                       prev_target_pos + 1, target_pos))

\* the body of the for loop over align (utils.py 180-184): the spans after
\* one alignment point
SpanStep(acc, prev_source_pos, prev_target_pos, source_pos, target_pos) ==
  IF prev_source_pos + 1 # source_pos \/ prev_target_pos + 1 # target_pos
  THEN Append(acc, EditSpan(prev_source_pos + 1, source_pos,
                            prev_target_pos + 1, target_pos))
  ELSE acc

\* the for loop over align (utils.py 176-186)
RECURSIVE BuildSpans(_, _, _, _, _)
BuildSpans(al, k, prev_source_pos, prev_target_pos, acc) ==
  IF k > Len(al) THEN acc
  ELSE BuildSpans(al, k + 1, al[k][1], al[k][2],
                  SpanStep(acc, prev_source_pos, prev_target_pos,
                           al[k][1], al[k][2]))

\* utils.py 176-187: the spans of the alignment points al
SpansOfAlign(mat, al) ==
  [lev_mat |-> mat, align |-> al, spans |-> BuildSpans(al, 1, -1, -1, <<>>)]

\* utils.py 161-187: the backtrace through lev_mat and the spans
SpansOfMatrix(mat, m, n) == SpansOfAlign(mat, AlignPoints(mat, m, n))

\* get_edit_spans, with the matrix and the alignment points it went through
get_edit_spans_trace(source, target) ==
  SpansOfMatrix(levenshtein_matrix(source, target, TokenCostFunc(source, target)),
                Len(source), Len(target))

get_edit_spans(source, target) == get_edit_spans_trace(source, target).spans

\* ------------------------------------------- classification: helpers

\* ''.join(texts)
RECURSIVE Join(_)
Join(texts) == IF texts = <<>> THEN <<>> ELSE Head(texts) \o Join(Tail(texts))

\* token.is_punct: every character of the text is punctuation
is_punct(token) == \A i \in 1..Len(token.text) : token.text[i] \in {".", ","}

\* token.is_digit: str.isdigit() of the text
is_digit(token) ==
  Len(token.text) > 0 /\ \A i \in 1..Len(token.text) : token.text[i] \in {"1", "2"}

LowerTexts(tokens) == [i \in 1..Len(tokens) |-> Lower(tokens[i].text)]

\* _is_orth_error
_is_orth_error(src, tgt) == Join(LowerTexts(src)) = Join(LowerTexts(tgt))

\* _is_wo_error comparing the lists and not the sets
_is_wo_error_ordered(src, tgt) == LowerTexts(src) = LowerTexts(tgt)

\* _is_wo_error
_is_wo_error(src, tgt) ==
  {Lower(src[i].text) : i \in 1..Len(src)} = {Lower(tgt[i].text) : i \in 1..Len(tgt)}

\* get_nonpunct_tokens of _is_punct_error
get_nonpunct_tokens(tokens) == SelectSeq(tokens, LAMBDA token : ~is_punct(token))

\* _is_punct_error
_is_punct_error(src, tgt) ==
  _is_orth_error(get_nonpunct_tokens(src), get_nonpunct_tokens(tgt))

\* get_regular_tokens of classify_single_span
get_regular_tokens(tokens) ==
  SelectSeq(tokens, LAMBDA token : ~is_digit(token) /\ ~is_punct(token))

\* _pos_is_subset
_pos_is_subset(tokens, allowed_pos) ==
  \A k \in 1..Len(tokens) : tokens[k].pos \in allowed_pos

\* _is_aux_span
_is_aux_span(tokens) == _pos_is_subset(tokens, {"AUX"})

\* _is_verbal_span
_is_verbal_span(tokens) ==
  /\ _pos_is_subset(tokens, {"AUX", "PART", "VERB"})
  /\ \E k \in 1..Len(tokens) : tokens[k].pos = "VERB"

\* _is_noun_span
_is_noun_span(tokens) ==
  /\ _pos_is_subset(tokens, {"DET", "NOUN"})
  /\ \E k \in 1..Len(tokens) : tokens[k].pos = "NOUN"

\* zip(pos_source_tokens, pos_target_tokens) filtered by equal lemma
RECURSIVE ZipSameLemma(_, _, _)
ZipSameLemma(ps, pt, k) ==
  IF k > Len(ps) \/ k > Len(pt) THEN <<>>
  ELSE IF ps[k].lemma = pt[k].lemma
       THEN <<<<ps[k], pt[k]>>>> \o ZipSameLemma(ps, pt, k + 1)
  ELSE ZipSameLemma(ps, pt, k + 1)

\* _match_up_pos_tokens: the pairs it yields, in order
_match_up_pos_tokens(src, tgt, pos) ==
  ZipSameLemma(SelectSeq(src, LAMBDA token : token.pos = pos),
               SelectSeq(tgt, LAMBDA token : token.pos = pos), 1)

\* _morph_match: token.morph.get(field_name) is a list of value texts
_morph_match(source_token, target_token, field_name) ==
  Join(source_token[field_name]) = Join(target_token[field_name])

\* the set {token.pos_ for token in tokens}
PosSet(tokens) == {tokens[k].pos : k \in 1..Len(tokens)}

\* --------------------------------------------- GenericClassifier rules

\* _get_one_sided_tag
_get_one_sided_tag(tokens) ==
  IF _is_aux_span(tokens) THEN "VERB:TENSE"
  ELSE IF Cardinality(PosSet(tokens)) = 1 THEN CHOOSE p \in PosSet(tokens) : TRUE
  ELSE IF _is_verbal_span(tokens) THEN "VERB"
  ELSE "OTHER"

\* the for loop over matched nouns (classification.py 188-192)
RECURSIVE NounLoop(_, _)
NounLoop(pairs, k) ==
  IF k > Len(pairs) THEN "NOUN"
  ELSE IF ~_morph_match(pairs[k][1], pairs[k][2], "Number") THEN "NOUN:NUM"
  ELSE NounLoop(pairs, k + 1)

\* VerbLoop looking for a Tense difference in every pair first
VerbLoop_tense_first(pairs, k) ==
  IF \E i \in 1..Len(pairs) : ~_morph_match(pairs[i][1], pairs[i][2], "Tense")
  THEN "VERB:TENSE"
  ELSE IF \E i \in 1..Len(pairs) :
            /\ ~_morph_match(pairs[i][1], pairs[i][2], "Number")
            /\ ~_morph_match(pairs[i][1], pairs[i][2], "Person")
       THEN "VERB:SVA"
  ELSE "VERB"

\* the for loop over matched verbs (classification.py 195-203)
RECURSIVE VerbLoop(_, _)
VerbLoop(pairs, k) ==
  IF k > Len(pairs) THEN "VERB"
  ELSE IF ~_morph_match(pairs[k][1], pairs[k][2], "Tense") THEN "VERB:TENSE"
  ELSE IF /\ ~_morph_match(pairs[k][1], pairs[k][2], "Number")
          /\ ~_morph_match(pairs[k][1], pairs[k][2], "Person")
       THEN "VERB:SVA"
  ELSE VerbLoop(pairs, k + 1)

\* _get_two_sided_tag returning the shared tag of the target as it is
_get_two_sided_tag_no_aux_map(src, tgt) ==
  IF _is_aux_span(src) /\ _is_aux_span(tgt) THEN "VERB:TENSE"
  ELSE IF _is_noun_span(src) /\ _is_noun_span(tgt)
       THEN NounLoop(_match_up_pos_tokens(src, tgt, "NOUN"), 1)
  ELSE IF _is_verbal_span(src) /\ _is_verbal_span(tgt)
       THEN VerbLoop(_match_up_pos_tokens(src, tgt, "VERB"), 1)
  ELSE IF Cardinality(PosSet(tgt)) = 1
       THEN CHOOSE p \in PosSet(tgt) : TRUE
  ELSE "OTHER"

\* _get_two_sided_tag
_get_two_sided_tag(src, tgt) ==
  IF _is_aux_span(src) /\ _is_aux_span(tgt) THEN "VERB:TENSE"
  ELSE IF _is_noun_span(src) /\ _is_noun_span(tgt)
       THEN NounLoop(_match_up_pos_tokens(src, tgt, "NOUN"), 1)
  ELSE IF _is_verbal_span(src) /\ _is_verbal_span(tgt)
       THEN VerbLoop(_match_up_pos_tokens(src, tgt, "VERB"), 1)
  ELSE IF Cardinality(PosSet(tgt)) = 1
       THEN LET pos == CHOOSE p \in PosSet(tgt) : TRUE
            IN IF pos = "AUX" THEN "VERB" ELSE pos
  ELSE "OTHER"

\* the callable lambda x, y: x != y (True is 1.0), in tenths
CharNeqFunc(source_text, target_text) ==
  [p \in {<<source_text[i], target_text[j]>> :
            i \in 1..Len(source_text), j \in 1..Len(target_text)} |->
     IF p[1] # p[2] THEN 10 ELSE 0]

\* relative_lev < 0.3 with relative_lev = 2.0 * lev / (len + len); lev is in
\* tenths here, so 2 * lev / 10 < 0.3 * (len + len)
RelativeLevBelow(source_text, target_text) ==
  2 * levenshtein_distance(source_text, target_text,
                           CharNeqFunc(source_text, target_text))
    < 3 * (Len(source_text) + Len(target_text))

\* One2OneOwnTag comparing the suggestions with the target text as they are
One2OneOwnTag_case_sensitive(has_aspell, suggest_result, source_token, target_token) ==
  LET aspell_suggestions == IF has_aspell THEN suggest_result ELSE <<>>
  IN
  IF /\ aspell_suggestions # <<>>
     /\ Lower(aspell_suggestions[1]) # Lower(source_token.text)
  THEN IF source_token.lemma = target_token.lemma
       THEN IF /\ source_token.pos = target_token.pos
               /\ source_token.pos \in {"NOUN", "VERB"}
            THEN IF source_token.pos = "NOUN" THEN "NOUN:INFL" ELSE "VERB:INFL"
            ELSE "MORPH"
       ELSE IF \E k \in 1..Len(aspell_suggestions) :
                 aspell_suggestions[k] = target_token.text
            THEN "SPELL"
       ELSE IF RelativeLevBelow(source_token.text, target_token.text)
            THEN "SPELL"
       ELSE ""
  ELSE IF /\ source_token.lemma = target_token.lemma
          /\ source_token.pos # target_token.pos
       THEN "MORPH"
  ELSE ""

\* _get_one2one_tag before its last line (classification.py 153-177): the
\* tag it returns there, "" when it falls through. has_aspell is
\* self._aspell is not None and suggest_result is what
\* self._aspell.suggest(source_token.text) returns
One2OneOwnTag(has_aspell, suggest_result, source_token, target_token) ==
  LET aspell_suggestions == IF has_aspell THEN suggest_result ELSE <<>>
  IN
  IF /\ aspell_suggestions # <<>>
     /\ Lower(aspell_suggestions[1]) # Lower(source_token.text)
  THEN IF source_token.lemma = target_token.lemma
       THEN IF /\ source_token.pos = target_token.pos
               /\ source_token.pos \in {"NOUN", "VERB"}
            THEN IF source_token.pos = "NOUN" THEN "NOUN:INFL" ELSE "VERB:INFL"
            ELSE "MORPH"
       ELSE IF \E k \in 1..Len(aspell_suggestions) :
                 Lower(aspell_suggestions[k]) = Lower(target_token.text)
            THEN "SPELL"
       ELSE IF RelativeLevBelow(source_token.text, target_token.text)
            THEN "SPELL"
       ELSE ""
  ELSE IF /\ source_token.lemma = target_token.lemma
          /\ source_token.pos # target_token.pos
       THEN "MORPH"
  ELSE ""

\* _get_one2one_tag
_get_one2one_tag(has_aspell, suggest_result, source_token, target_token) ==
  LET own == One2OneOwnTag(has_aspell, suggest_result, source_token, target_token)
  IN IF own # "" THEN own
     ELSE _get_two_sided_tag(<<source_token>>, <<target_token>>)

\* whether classify_single_span reaches _get_one2one_tag
ReachesOne2One(src, tgt) ==
  /\ Len(get_regular_tokens(src)) = 1
  /\ Len(get_regular_tokens(tgt)) = 1
  /\ ~_is_orth_error(src, tgt)
  /\ ~_is_wo_error(src, tgt)
  /\ ~_is_punct_error(src, tgt)
  /\ ~_is_orth_error(get_regular_tokens(src), get_regular_tokens(tgt))

\* classify_single_span from source_regular_tokens and target_regular_tokens
\* on (classification.py 243-255)
classify_regular_tokens(has_aspell, suggest_result, source_regular_tokens, target_regular_tokens) ==
  IF _is_orth_error(source_regular_tokens, target_regular_tokens)
  THEN "NUM"
  ELSE IF source_regular_tokens = <<>>
       THEN _get_one_sided_tag(target_regular_tokens)
  ELSE IF target_regular_tokens = <<>>
       THEN _get_one_sided_tag(source_regular_tokens)
  ELSE IF Len(source_regular_tokens) = 1 /\ Len(target_regular_tokens) = 1
       THEN _get_one2one_tag(has_aspell, suggest_result,
                             source_regular_tokens[1],
                             target_regular_tokens[1])
  ELSE _get_two_sided_tag(source_regular_tokens, target_regular_tokens)

\* classify_single_span with the WO test before the ORTH test
classify_single_span_wo_first(has_aspell, suggest_result, src, tgt) ==
  IF _is_wo_error(src, tgt) THEN "WO"
  ELSE IF _is_orth_error(src, tgt) THEN "ORTH"
  ELSE IF _is_punct_error(src, tgt) THEN "PUNCT"
  ELSE classify_regular_tokens(has_aspell, suggest_result,
                               get_regular_tokens(src), get_regular_tokens(tgt))

\* classify_single_span on the tokens of edit_span.source_span and
\* edit_span.target_span
classify_single_span(has_aspell, suggest_result, src, tgt) ==
  IF _is_orth_error(src, tgt) THEN "ORTH"
  ELSE IF _is_wo_error(src, tgt) THEN "WO"
  ELSE IF _is_punct_error(src, tgt) THEN "PUNCT"
  ELSE classify_regular_tokens(has_aspell, suggest_result,
                               get_regular_tokens(src), get_regular_tokens(tgt))

\* ------------------------------------------------ aligner: inputs, steps

SeqsUpTo(S, n) == UNION {[1..k -> S] : k \in 0..n}

\* tokens whose pairs have the substitution costs 0 (same text, other lemma
\* and pos), 0.1 (case only), 0.2 (same lemma and pos) and 1.0
AlignVocab ==
  { PlainTok(<<"a">>, 1, "NOUN"), PlainTok(<<"A">>, 1, "NOUN"),
    PlainTok(<<"a">>, 2, "VERB"), PlainTok(<<"b">>, 1, "NOUN") }

AlignDocs == SeqsUpTo(AlignVocab, MaxAlignLen)

\* no pair of documents given to get_edit_spans or to Classifier.classify
AlignIdle ==
  /\ source_tokens = <<>>
  /\ target_tokens = <<>>
  /\ lev_mat = <<>>
  /\ align = <<>>
  /\ spans = <<>>
  /\ tag_writes = <<>>

\* no classify_single_span call under check
ClassifyIdle ==
  /\ span_source = <<>>
  /\ span_target = <<>>
  /\ _aspell = "None"
  /\ suggested = <<>>
  /\ tag = "UNK"

NoCall == [op |-> "none"]

\* no Annotation returned (the call raised, or was not annotate)
NoAnnotation == [none |-> TRUE]

\* no Annotator under check
AnnotatorIdle ==
  /\ _aspell_lang = "None"
  /\ _initialized = FALSE
  /\ _nlp = "None"
  /\ _classifier = "None"
  /\ init_completed = FALSE
  /\ last_call = NoCall
  /\ raised = "None"
  /\ annotation = NoAnnotation
  /\ nlp_calls = 0

\* no run of c4200m_make_sentence_pairs
PairsIdle ==
  /\ target_sentence_tsv = <<>>
  /\ edits_tsv = <<>>
  /\ output_tsv = <<>>
  /\ main_raised = "None"

\* no formatter made
FormatIdle ==
  /\ formatter_name = "None"
  /\ formatted = NoAnnotation
  /\ m2_lines = <<>>

\* no levenshtein_distance call with a cost function of the caller
LevIdle ==
  /\ sub_cost = <<>>
  /\ lev_distance = 0

InitAlign ==
  /\ pc = "input"
  /\ source_tokens \in AlignDocs
  /\ target_tokens \in AlignDocs
  /\ lev_mat = <<>>
  /\ align = <<>>
  /\ spans = <<>>
  /\ tag_writes = <<>>
  /\ ClassifyIdle
  /\ AnnotatorIdle
  /\ FormatIdle
  /\ LevIdle
  /\ PairsIdle

\* one call get_edit_spans(source_tokens, target_tokens)
GetEditSpans ==
  /\ pc = "input"
  /\ \E r \in {get_edit_spans_trace(source_tokens, target_tokens)} :
        /\ lev_mat' = r.lev_mat
        /\ align' = r.align
        /\ spans' = r.spans
  /\ pc' = "done"
  /\ UNCHANGED <<source_tokens, target_tokens, tag_writes, classifyVars,
                 annotatorVars, observedVars, formatVars, levVars, pairsVars>>

NextAlign == GetEditSpans

SpecAlign == InitAlign /\ [][NextAlign]_vars

\* ---------------------------------- levenshtein_distance: inputs, steps

\* elements of the sequences and the costs a compare_func may return, in
\* tenths: nothing, less than, as much as and more than an insertion
LevAlphabet == {"x", "y"}
LevCosts == {0, 3, 10, 25}

\* the callables compare_func
CompareFuncs == [LevAlphabet \X LevAlphabet -> LevCosts]

LevSeqs == SeqsUpTo(LevAlphabet, MaxAlignLen)

InitLev ==
  /\ pc = "input"
  /\ source_tokens \in LevSeqs
  /\ target_tokens \in LevSeqs
  /\ sub_cost \in CompareFuncs
  /\ lev_mat = <<>>
  /\ lev_distance = 0
  /\ PairsIdle
  /\ align = <<>>
  /\ spans = <<>>
  /\ tag_writes = <<>>
  /\ ClassifyIdle
  /\ AnnotatorIdle
  /\ FormatIdle

\* one call levenshtein_distance(source_tokens, target_tokens, compare_func)
\* and the matrix its call of levenshtein_matrix returns
LevenshteinDistance ==
  /\ pc = "input"
  /\ lev_mat' = levenshtein_matrix(source_tokens, target_tokens, sub_cost)
  /\ lev_distance' = levenshtein_distance(source_tokens, target_tokens, sub_cost)
  /\ pc' = "done"
  /\ UNCHANGED <<source_tokens, target_tokens, align, spans, tag_writes, sub_cost,
                 classifyVars, annotatorVars, observedVars, formatVars, pairsVars>>

NextLev == LevenshteinDistance

SpecLev == InitLev /\ [][NextLev]_vars

\* ------------------------------------------- classifier: inputs, steps

\* spans that exercise the cascade: case and white-space differences,
\* re-orderings, punctuation and digit tokens
CascadeVocab ==
  { PlainTok(<<"a">>, 1, "NOUN"), PlainTok(<<"A">>, 1, "NOUN"),
    PlainTok(<<"b">>, 2, "VERB"), PlainTok(<<"a", "b">>, 3, "NOUN"),
    PlainTok(<<".">>, 4, "PUNCT"), PlainTok(<<"1">>, 5, "NUM") }

CascadeInputs ==
  SeqsUpTo(CascadeVocab, MaxSpanLen) \X SeqsUpTo(CascadeVocab, MaxSpanLen)

\* 1:1 replacements: texts at relative character distance 2/7 (abab, aba)
\* and 2/5 (aba, ba), equal and different lemmas and parts of speech
One2OneVocab ==
  { PlainTok(t, l, p) :
      t \in {<<"a", "b", "a", "b">>, <<"a", "b", "a">>, <<"b", "a">>},
      l \in {1, 2}, p \in {"NOUN", "VERB", "ADJ"} }

One2OneInputs == {<<<<s>>, <<t>>>> : s \in One2OneVocab, t \in One2OneVocab}

Pres == <<<<"Pres">>>>
Past == <<<<"Past">>>>
Sing == <<<<"Sing">>>>
Plur == <<<<"Plur">>>>
First == <<<<"1">>>>
Third == <<<<"3">>>>

\* source side of verb and noun phrases
PhraseSourceVocab ==
  { Tok(<<"a">>, 1, "VERB", Pres, Sing, Third),
    Tok(<<"c">>, 3, "AUX", Pres, Sing, Third),
    Tok(<<"d">>, 4, "PART", <<>>, <<>>, <<>>),
    Tok(<<"e">>, 5, "NOUN", <<>>, Sing, <<>>),
    Tok(<<"f">>, 6, "DET", <<>>, <<>>, <<>>) }

\* target side: the verb of lemma 1 with another tense, with another number
\* and person, with another number only; a verb of another lemma; an
\* auxiliary; the noun of lemma 5 in the plural; a determiner
PhraseTargetVocab ==
  { Tok(<<"g">>, 1, "VERB", Past, Sing, Third),
    Tok(<<"h">>, 1, "VERB", Pres, Plur, First),
    Tok(<<"i">>, 1, "VERB", Pres, Plur, Third),
    Tok(<<"j">>, 2, "VERB", Past, Plur, First),
    Tok(<<"k">>, 3, "AUX", Past, Sing, Third),
    Tok(<<"l">>, 5, "NOUN", <<>>, Plur, <<>>),
    Tok(<<"m">>, 6, "DET", <<>>, <<>>, <<>>) }

PhraseInputs ==
  SeqsUpTo(PhraseSourceVocab, MaxSpanLen) \X SeqsUpTo(PhraseTargetVocab, MaxSpanLen)

ClassifyInputs == CascadeInputs \cup One2OneInputs \cup PhraseInputs

\* what the speller may answer: an ordered list of candidate corrections
SuggestTexts ==
  { <<"a", "b", "a">>, <<"A", "B", "A">>, <<"a", "b", "a", "b">> }

SuggestResults == SeqsUpTo(SuggestTexts, MaxSuggestions)

InitClassify ==
  /\ pc = "input"
  /\ AlignIdle
  /\ AnnotatorIdle
  /\ FormatIdle
  /\ LevIdle
  /\ PairsIdle
  /\ \E in \in ClassifyInputs :
       /\ span_source = in[1]
       /\ span_target = in[2]
  /\ _aspell \in {"None", "Speller"}
  /\ suggested = <<>>
  /\ tag = "UNK"

\* one call classify_single_span(edit_span); the speller's answer is drawn
\* when the call reaches self._aspell.suggest
ClassifySingleSpan ==
  /\ pc = "input"
  /\ \E suggest_result \in
         IF _aspell # "None" /\ ReachesOne2One(span_source, span_target)
         THEN SuggestResults ELSE {<<>>} :
       /\ suggested' = suggest_result
       /\ tag' = classify_single_span(_aspell # "None", suggest_result,
                                      span_source, span_target)
  /\ pc' = "done"
  /\ UNCHANGED <<alignVars, span_source, span_target, _aspell,
                 annotatorVars, observedVars, formatVars, levVars, pairsVars>>

NextClassify == ClassifySingleSpan

SpecClassify == InitClassify /\ [][NextClassify]_vars

\* ------------------------------------------------------------ Annotator

\* the tagger's reading of a word: self._nlp is a loaded pipeline, and a
\* word gets the same text, lemma and part of speech wherever it stands
Lexicon(word) ==
  CASE word = <<"a">> -> PlainTok(word, 1, "NOUN")
    [] word = <<"A">> -> PlainTok(word, 1, "NOUN")
    [] OTHER -> PlainTok(word, 2, "VERB")

\* self._nlp(sentence): the Doc, its text and its tokens; a sentence is the
\* sequence of its words
Nlp(sentence) ==
  [text |-> sentence,
   tokens |-> [i \in 1..Len(sentence) |-> Lexicon(sentence[i])]]

\* self._aspell.suggest(text) of a speller that knows the word "a"
AspellSuggest(text) ==
  CASE text = <<"a">> -> <<<<"a">>>>
    [] text = <<"A">> -> <<<<"A">>, <<"a">>>>
    [] OTHER -> <<<<"a">>>>

\* classify_single_span on one EditSpan of (source_doc, target_doc)
ClassifySpan(has_aspell, source_doc, target_doc, edit_span) ==
  LET src == Slice(source_doc.tokens, edit_span.source_start, edit_span.source_end)
      tgt == Slice(target_doc.tokens, edit_span.target_start, edit_span.target_end)
      suggest_result ==
        IF has_aspell /\ ReachesOne2One(src, tgt)
        THEN AspellSuggest(get_regular_tokens(src)[1].text)
        ELSE <<>>
  IN classify_single_span(has_aspell, suggest_result, src, tgt)

\* the for loop of Classifier.classify from the k-th edit span on;
\* writes[k] counts the assignments to edit_spans[k].tag
RECURSIVE ClassifyLoop(_, _, _, _, _, _)
ClassifyLoop(has_aspell, source_doc, target_doc, edit_spans, writes, k) ==
  IF k > Len(edit_spans)
  THEN [edit_spans |-> edit_spans, tag_writes |-> writes]
  ELSE ClassifyLoop(has_aspell, source_doc, target_doc,
                    [edit_spans EXCEPT ![k].tag =
                       ClassifySpan(has_aspell, source_doc, target_doc, edit_spans[k])],
                    [writes EXCEPT ![k] = @ + 1],
                    k + 1)

\* Classifier.classify with a loop that leaves out the first edit span
classify_trace_skip_first(has_aspell, source_doc, target_doc) ==
  LET edit_spans == get_edit_spans(source_doc.tokens, target_doc.tokens)
  IN ClassifyLoop(has_aspell, source_doc, target_doc, edit_spans,
                  [k \in 1..Len(edit_spans) |-> 0], 2)

\* Classifier.classify: the edit spans it returns and how often it assigned
\* each one's tag
classify_trace(has_aspell, source_doc, target_doc) ==
  LET edit_spans == get_edit_spans(source_doc.tokens, target_doc.tokens)
  IN ClassifyLoop(has_aspell, source_doc, target_doc, edit_spans,
                  [k \in 1..Len(edit_spans) |-> 0], 1)

\* Classifier.classify: the edit spans, each with its tag assigned
classify(has_aspell, source_doc, target_doc) ==
  classify_trace(has_aspell, source_doc, target_doc).edit_spans

NotInitializedError == "ValueError: Annotator not initialized."
NotAListError == "ValueError: target_sentences must be a list, not a string."
NoneNotCallable == "TypeError: 'NoneType' object is not callable"

\* the loop of annotate over a list of target sentences
AnnotateList(has_aspell, source_sentence, targets) ==
  LET source_doc == Nlp(source_sentence)
  IN [raised |-> "None",
      annotation |->
        [source_doc |-> source_doc,
         target_sentences |->
           [k \in 1..Len(targets) |->
              [doc |-> Nlp(targets[k]),
               edit_spans |-> classify(has_aspell, source_doc, Nlp(targets[k]))]]],
      nlp_calls |-> 1 + Len(targets)]

Raise(exception) == [raised |-> exception, annotation |-> NoAnnotation, nlp_calls |-> 0]

\* Annotator.annotate without the test of self._initialized
annotate_no_init_check(initialized, nlp, has_aspell, source_sentence, target_sentences) ==
  IF target_sentences.kind = "str" THEN Raise(NotAListError)
  ELSE IF nlp = "None" THEN Raise(NoneNotCallable)
  ELSE AnnotateList(has_aspell, source_sentence, target_sentences.value)

\* Annotator.annotate without the isinstance test: a string is iterated
\* character by character, here word by word
annotate_no_str_check(initialized, nlp, has_aspell, source_sentence, target_sentences) ==
  IF ~initialized THEN Raise(NotInitializedError)
  ELSE IF nlp = "None" THEN Raise(NoneNotCallable)
  ELSE AnnotateList(has_aspell, source_sentence,
                    IF target_sentences.kind = "str"
                    THEN [i \in 1..Len(target_sentences.value) |->
                            <<target_sentences.value[i]>>]
                    ELSE target_sentences.value)

\* Annotator.annotate: what it raises or returns, and how often it ran the
\* tokenizer. target_sentences is [kind |-> "str", value |-> a sentence] or
\* [kind |-> "list", value |-> a sequence of sentences]
annotate(initialized, nlp, has_aspell, source_sentence, target_sentences) ==
  IF ~initialized THEN Raise(NotInitializedError)
  ELSE IF target_sentences.kind = "str" THEN Raise(NotAListError)
  ELSE IF nlp = "None" THEN Raise(NoneNotCallable)
  ELSE AnnotateList(has_aspell, source_sentence, target_sentences.value)

\* the sentences given to annotate: a case change in a re-ordering, a
\* replaced word, a deleted word
Sentences ==
  { <<<<"a">>, <<"A">>>>, <<<<"A">>, <<"a">>>>, <<<<"a">>, <<"b">>>>, <<<<"b">>>> }

TargetArguments ==
  {[kind |-> "str", value |-> t] : t \in Sentences}
    \cup {[kind |-> "list", value |-> ts] : ts \in SeqsUpTo(Sentences, MaxTargets)}

\* Annotator(spacy_model, aspell_lang)
Init ==
  /\ pc = "idle"
  /\ AlignIdle
  /\ ClassifyIdle
  /\ FormatIdle
  /\ LevIdle
  /\ PairsIdle
  /\ _aspell_lang \in {"None", "en"}
  /\ _initialized = FALSE
  /\ _nlp = "None"
  /\ _classifier = "None"
  /\ init_completed = FALSE
  /\ last_call = NoCall
  /\ raised = "None"
  /\ annotation = NoAnnotation
  /\ nlp_calls = 0

\* initialize() returns: the pipeline and the classifier are loaded
InitializeOk ==
  /\ _nlp' = "Language"
  /\ _classifier' = "GenericClassifier"
  /\ _aspell' = IF _aspell_lang # "None" THEN "Speller" ELSE "None"
  /\ _initialized' = TRUE
  /\ init_completed' = TRUE
  /\ last_call' = [op |-> "initialize"]
  /\ raised' = "None"
  /\ annotation' = NoAnnotation
  /\ nlp_calls' = 0
  /\ UNCHANGED <<pc, alignVars, span_source, span_target, suggested, tag,
                 _aspell_lang, formatVars, levVars, pairsVars>>

\* initialize() raises in utils.load_spacy_from_google3 (the model is not
\* installed): nothing is assigned
InitializeLoadFails ==
  /\ last_call' = [op |-> "initialize"]
  /\ raised' = "OSError"
  /\ annotation' = NoAnnotation
  /\ nlp_calls' = 0
  /\ UNCHANGED <<pc, alignVars, classifyVars, annotatorVars, init_completed, formatVars, levVars, pairsVars>>

\* initialize() raises in aspell.Speller (no dictionary for the language):
\* self._nlp and a classifier without speller are assigned,
\* self._initialized is not
InitializeSpellerFails ==
  /\ _aspell_lang # "None"
  /\ _nlp' = "Language"
  /\ _classifier' = "GenericClassifier"
  /\ _aspell' = "None"
  /\ last_call' = [op |-> "initialize"]
  /\ raised' = "AspellError"
  /\ annotation' = NoAnnotation
  /\ nlp_calls' = 0
  /\ UNCHANGED <<pc, alignVars, span_source, span_target, suggested, tag,
                 _aspell_lang, _initialized, init_completed, formatVars, levVars, pairsVars>>

\* one call annotate(source_sentence, target_sentences)
Annotate ==
  \E source_sentence \in Sentences, target_sentences \in TargetArguments :
    \E r \in {annotate(_initialized, _nlp, _aspell # "None",
                       source_sentence, target_sentences)} :
       /\ last_call' = [op |-> "annotate", source_sentence |-> source_sentence,
                        target_sentences |-> target_sentences]
       /\ raised' = r.raised
       /\ annotation' = r.annotation
       /\ nlp_calls' = r.nlp_calls
       /\ UNCHANGED <<pc, alignVars, classifyVars, annotatorVars, init_completed, formatVars, levVars, pairsVars>>

Next == InitializeOk \/ InitializeLoadFails \/ InitializeSpellerFails \/ Annotate

Spec == Init /\ [][Next]_vars

\* ------------------------------- Classifier.classify: inputs, steps

\* tokens of documents given to Classifier.classify: a noun in two casings,
\* a verb, an adjective, a punctuation mark and a number
TaggedVocab ==
  { PlainTok(<<"a">>, 1, "NOUN"), PlainTok(<<"A">>, 1, "NOUN"),
    PlainTok(<<"b">>, 2, "VERB"), PlainTok(<<"c">>, 3, "ADJ"),
    PlainTok(<<".">>, 4, "PUNCT"), PlainTok(<<"1">>, 5, "NUM") }

TaggedDocs == SeqsUpTo(TaggedVocab, MaxDocLen)

\* a GenericClassifier, with or without speller, and two documents
InitClassifyDocs ==
  /\ pc = "input"
  /\ source_tokens \in TaggedDocs
  /\ target_tokens \in TaggedDocs
  /\ lev_mat = <<>>
  /\ align = <<>>
  /\ spans = <<>>
  /\ tag_writes = <<>>
  /\ span_source = <<>>
  /\ span_target = <<>>
  /\ _aspell \in {"None", "Speller"}
  /\ suggested = <<>>
  /\ tag = "UNK"
  /\ AnnotatorIdle
  /\ FormatIdle
  /\ LevIdle
  /\ PairsIdle

\* one call classify(source_doc, target_doc)
Classify ==
  /\ pc = "input"
  /\ \E r \in {classify_trace(_aspell # "None", [tokens |-> source_tokens],
                               [tokens |-> target_tokens])} :
        /\ spans' = r.edit_spans
        /\ tag_writes' = r.tag_writes
  /\ pc' = "done"
  /\ UNCHANGED <<source_tokens, target_tokens, lev_mat, align, classifyVars,
                 annotatorVars, observedVars, formatVars, levVars, pairsVars>>

NextClassifyDocs == Classify

SpecClassifyDocs == InitClassifyDocs /\ [][NextClassifyDocs]_vars

\* ----------------------------------------------------------- formatters

\* sep.join(texts)
RECURSIVE JoinWith(_, _)
JoinWith(sep, texts) ==
  IF texts = <<>> THEN <<>>
  ELSE IF Len(texts) = 1 THEN texts[1]
  ELSE texts[1] \o sep \o JoinWith(sep, Tail(texts))

\* doc.text: the sentence, its words separated by one space
DocText(doc) == JoinWith(<<" ">>, doc.text)

\* token.idx of doc[i], the character offset of the token in doc.text
RECURSIVE TokenIdx(_, _)
TokenIdx(doc, i) ==
  IF i = 0 THEN 0 ELSE TokenIdx(doc, i - 1) + Len(doc.tokens[i].text) + 1

\* doc[start:end].start_char; an empty span at the end of the Doc starts at
\* the length of the text
SpanStartChar(doc, start, end) ==
  IF start < Len(doc.tokens) THEN TokenIdx(doc, start) ELSE Len(DocText(doc))

\* doc[start:end].end_char; an empty span ends where the token before it ends
SpanEndChar(doc, start, end) ==
  IF end >= 1 THEN TokenIdx(doc, end - 1) + Len(doc.tokens[end].text) ELSE 0

\* doc[start:end].text, "" for an empty span (also when it raises IndexError)
SpanText(doc, start, end) ==
  JoinWith(<<" ">>, [i \in 1..(end - start) |-> doc.tokens[start + i].text])

\* EditSpan.get_label: prefix + self.tag, kept as the two parts
get_label(edit_span) ==
  IF edit_span.target_end - edit_span.target_start = 0 THEN <<"U:", edit_span.tag>>
  ELSE IF edit_span.source_end - edit_span.source_start = 0
       THEN <<"M:", edit_span.tag>>
  ELSE <<"R:", edit_span.tag>>

_M2_LINE == "A %d %d|||%s|||%s|||REQUIRED|||-NONE-|||%d"
_NOOP_M2_LINE == "A -1 -1|||noop|||-NONE-|||REQUIRED|||-NONE-|||%d"

\* the string fmt % args, kept as the format and the values it is filled with
Formatted(fmt, args) == [fmt |-> fmt, args |-> args]

\* "S " + text
SLine(text) == Formatted("S %s", <<text>>)

\* the "" appended after the loop
BlankLine == Formatted("", <<>>)

\* " " * n
Spaces(n) == [i \in 1..n |-> " "]

\* M2CharFormatter.format: the line of one edit span (io.py 55-68)
M2CharLine(source_doc, target_doc, edit_span, annotator_id) ==
  LET target_text == SpanText(target_doc, edit_span.target_start, edit_span.target_end)
      start_char == SpanStartChar(source_doc, edit_span.source_start,
                                  edit_span.source_end)
      end_char == SpanEndChar(source_doc, edit_span.source_start,
                              edit_span.source_end)
      insert == edit_span.source_start = edit_span.source_end
  IN Formatted(_M2_LINE,
               << IF insert THEN end_char ELSE start_char,
                  end_char,
                  get_label(edit_span),
                  IF insert /\ start_char > end_char
                  THEN Spaces(start_char - end_char) \o target_text
                  ELSE target_text,
                  annotator_id >>)

\* M2CharFormatter.format: the lines of one target, never the no-op line
M2CharTargetLines_no_noop(annot, annotator_id) ==
  LET target_sentence == annot.target_sentences[annotator_id + 1]
  IN [i \in 1..Len(target_sentence.edit_spans) |->
        M2CharLine(annot.source_doc, target_sentence.doc,
                   target_sentence.edit_spans[i], annotator_id)]

\* M2CharFormatter.format: the lines of one target (io.py 51-68)
M2CharTargetLines(annot, annotator_id) ==
  LET target_sentence == annot.target_sentences[annotator_id + 1]
  IN IF target_sentence.edit_spans = <<>>
     THEN <<Formatted(_NOOP_M2_LINE, <<annotator_id>>)>>
     ELSE [i \in 1..Len(target_sentence.edit_spans) |->
             M2CharLine(annot.source_doc, target_sentence.doc,
                        target_sentence.edit_spans[i], annotator_id)]

\* the loop over enumerate(annot.target_sentences)
RECURSIVE M2CharLoop(_, _, _)
M2CharLoop(annot, annotator_id, lines) ==
  IF annotator_id >= Len(annot.target_sentences) THEN lines
  ELSE M2CharLoop(annot, annotator_id + 1,
                  lines \o M2CharTargetLines(annot, annotator_id))

\* M2CharFormatter.format
M2CharFormatter_format(annot) ==
  M2CharLoop(annot, 0, <<SLine(DocText(annot.source_doc))>>)
    \o <<BlankLine>>

\* M2TokFormatter.format: the line of one edit span (io.py 86-92)
M2TokLine(target_doc, edit_span, annotator_id) ==
  Formatted(_M2_LINE,
            << edit_span.source_start,
               edit_span.source_end,
               get_label(edit_span),
               SpanText(target_doc, edit_span.target_start, edit_span.target_end),
               annotator_id >>)

\* M2TokFormatter.format: the lines of one target (io.py 82-92)
M2TokTargetLines(annot, annotator_id) ==
  LET target_sentence == annot.target_sentences[annotator_id + 1]
  IN IF target_sentence.edit_spans = <<>>
     THEN <<Formatted(_NOOP_M2_LINE, <<annotator_id>>)>>
     ELSE [i \in 1..Len(target_sentence.edit_spans) |->
             M2TokLine(target_sentence.doc, target_sentence.edit_spans[i],
                       annotator_id)]

RECURSIVE M2TokLoop(_, _, _)
M2TokLoop(annot, annotator_id, lines) ==
  IF annotator_id >= Len(annot.target_sentences) THEN lines
  ELSE M2TokLoop(annot, annotator_id + 1,
                 lines \o M2TokTargetLines(annot, annotator_id))

\* M2TokFormatter.format
M2TokFormatter_format(annot) ==
  M2TokLoop(annot, 0,
            <<SLine(JoinWith(<<" ">>,
                             [i \in 1..Len(annot.source_doc.tokens) |->
                                annot.source_doc.tokens[i].text]))>>)
    \o <<BlankLine>>

\* sentences given to the annotator whose Annotation is formatted: those of
\* Sentences, one with a word inserted between two kept words and one that
\* differs from it before and after a kept word
FormatSentences ==
  Sentences \cup { <<<<"a">>, <<"A">>, <<"b">>>>, <<<<"b">>, <<"A">>, <<"a">>>> }

\* the Annotations annotate returns for them, with and without a speller
Annotations ==
  { AnnotateList(has_aspell, source_sentence, targets).annotation :
      has_aspell \in BOOLEAN, source_sentence \in FormatSentences,
      targets \in SeqsUpTo(FormatSentences, MaxTargets) }

\* formatter = make_formatter(formatter_name) and an Annotation to format
InitFormat ==
  /\ pc = "input"
  /\ AlignIdle
  /\ ClassifyIdle
  /\ AnnotatorIdle
  /\ formatter_name \in {"M2_CHAR", "M2_TOK"}
  /\ formatted \in Annotations
  /\ m2_lines = <<>>
  /\ LevIdle
  /\ PairsIdle

\* one call formatter.format(annotation)
Format ==
  /\ pc = "input"
  /\ m2_lines' = IF formatter_name = "M2_CHAR"
                 THEN M2CharFormatter_format(formatted)
                 ELSE M2TokFormatter_format(formatted)
  /\ pc' = "done"
  /\ UNCHANGED <<alignVars, classifyVars, annotatorVars, observedVars,
                 formatter_name, formatted, levVars, pairsVars>>

NextFormat == Format

SpecFormat == InitFormat /\ [][NextFormat]_vars

\* ------------------------------------------- c4200m_make_sentence_pairs

\* a line of a TSV file is the sequence of its fields: line.split("\t", 3)
\* of an edits line is <<md5, byte_start, byte_end, text>>, of a malformed
\* line a shorter sequence. A text is the sequence of its bytes (ASCII).

\* current_edit_md5 = None, and the md5 "0" that main starts with and that
\* is smaller than every md5 of a file; md5s are the numbers from 1 on
NoneMd5 == -1
ZeroMd5 == 0

\* the generator get_edits when the edits file has been read up to line k:
\* what it has yielded, current_edit_md5 and current_edits (not bound while
\* current_edit_md5 is None), and how it ends: the final yield raises
\* UnboundLocalError when current_edits is not bound
RECURSIVE GetEditsLoop(_, _, _, _, _)
GetEditsLoop(edits_tsv_reader, k, current_edit_md5, current_edits, yielded) ==
  IF k > Len(edits_tsv_reader)
  THEN IF current_edit_md5 = NoneMd5
       THEN [yielded |-> yielded, ends |-> "UnboundLocalError"]
       ELSE [yielded |-> Append(yielded, <<current_edit_md5, current_edits>>),
             ends |-> "StopIteration"]
  ELSE LET line == edits_tsv_reader[k]
       IN IF Len(line) # 4
          THEN GetEditsLoop(edits_tsv_reader, k + 1, current_edit_md5,
                            current_edits, yielded)
          ELSE IF line[1] # current_edit_md5
               THEN GetEditsLoop(edits_tsv_reader, k + 1, line[1],
                                 <<<<line[2], line[3], line[4]>>>>,
                                 IF current_edit_md5 # NoneMd5
                                 THEN Append(yielded, <<current_edit_md5, current_edits>>)
                                 ELSE yielded)
          ELSE GetEditsLoop(edits_tsv_reader, k + 1, current_edit_md5,
                            Append(current_edits, <<line[2], line[3], line[4]>>),
                            yielded)

\* get_edits: the items next() returns one after another and the exception
\* the next() after them raises
get_edits(edits_tsv_reader) == GetEditsLoop(edits_tsv_reader, 1, NoneMd5, <<>>, <<>>)

\* the slice bytes[start:end] for start, end >= 0
ByteSlice(bytes, start, end) ==
  LET stop == IF end < Len(bytes) THEN end ELSE Len(bytes)
  IN IF start >= stop THEN <<>> ELSE SubSeq(bytes, start + 1, stop)

\* the for loop of apply_edits
RECURSIVE ApplyEditsLoop(_, _, _, _, _)
ApplyEditsLoop(edits, k, target_bytes, last_byte_position, source_text) ==
  IF k > Len(edits) THEN source_text \o ByteSlice(target_bytes, last_byte_position,
                                                  Len(target_bytes))
  ELSE ApplyEditsLoop(edits, k + 1, target_bytes, edits[k][2],
                      source_text
                        \o ByteSlice(target_bytes, last_byte_position, edits[k][1])
                        \o edits[k][3])

\* apply_edits
apply_edits(edits, target_text) == ApplyEditsLoop(edits, 1, target_text, 0, <<>>)

\* the while loop of main (52-53): next(edits_iterator) until edit_md5 is
\* not below md5; pos is the number of items taken from the iterator
RECURSIVE NextEdits(_, _, _, _, _)
NextEdits(edits_iterator, pos, edit_md5, edits, md5) ==
  IF ~(edit_md5 < md5)
  THEN [raised |-> "None", pos |-> pos, edit_md5 |-> edit_md5, edits |-> edits]
  ELSE IF pos >= Len(edits_iterator.yielded)
       THEN [raised |-> edits_iterator.ends, pos |-> pos, edit_md5 |-> edit_md5,
             edits |-> edits]
  ELSE NextEdits(edits_iterator, pos + 1, edits_iterator.yielded[pos + 1][1],
                 edits_iterator.yielded[pos + 1][2], md5)

\* the for loop of main (50-56) from target line k on: the exception it
\* ends with and the lines "%s\t%s\n" written, each as its two fields
RECURSIVE MainLoop(_, _, _, _, _, _, _)
MainLoop(target_lines, k, edits_iterator, pos, edit_md5, edits, written) ==
  IF k > Len(target_lines) THEN [raised |-> "None", written |-> written]
  ELSE IF Len(target_lines[k]) # 2 THEN [raised |-> "ValueError", written |-> written]
  ELSE \* md5, target_text = target_lines[k]
       LET r == NextEdits(edits_iterator, pos, edit_md5, edits, target_lines[k][1])
       IN IF r.raised # "None" THEN [raised |-> r.raised, written |-> written]
          ELSE MainLoop(target_lines, k + 1, edits_iterator, r.pos, r.edit_md5,
                        r.edits,
                        IF r.edit_md5 = target_lines[k][1]
                        THEN Append(written,
                                    <<apply_edits(r.edits, target_lines[k][2]),
                                      target_lines[k][2]>>)
                        ELSE written)

\* main on the lines of the two input files
main(target_lines, edits_lines) ==
  MainLoop(target_lines, 1, get_edits(edits_lines), 0, ZeroMd5, <<>>, <<>>)

\* md5s and texts of the files
Md5s == 1..3
TargetTexts == { <<"a", "b", "c">> }
TargetLines == {<<md5, text>> : md5 \in Md5s, text \in TargetTexts}

\* an edit that replaces the first byte, one that inserts after the second,
\* and a line without tabs
EditLines ==
  {<<md5, 0, 1, <<"x">>>> : md5 \in Md5s}
    \cup {<<md5, 2, 2, <<"y">>>> : md5 \in Md5s}
    \cup {<<<<"z">>>>}

InitPairs ==
  /\ pc = "input"
  /\ AlignIdle
  /\ ClassifyIdle
  /\ AnnotatorIdle
  /\ FormatIdle
  /\ LevIdle
  /\ target_sentence_tsv \in SeqsUpTo(TargetLines, MaxTargetLines)
  /\ edits_tsv \in SeqsUpTo(EditLines, MaxEditLines)
  /\ output_tsv = <<>>
  /\ main_raised = "None"

\* one run of main
Main ==
  /\ pc = "input"
  /\ \E r \in {main(target_sentence_tsv, edits_tsv)} :
        /\ output_tsv' = r.written
        /\ main_raised' = r.raised
  /\ pc' = "done"
  /\ UNCHANGED <<alignVars, classifyVars, annotatorVars, observedVars, formatVars,
                 levVars, target_sentence_tsv, edits_tsv>>

NextPairs == Main

SpecPairs == InitPairs /\ [][NextPairs]_vars

\* ----------------------------------------------------- aligner: claims

Texts(doc) == [i \in 1..Len(doc) |-> doc[i].text]

\* positions of a span's source and target range
SourceRange(sp) == sp.source_start..(sp.source_end - 1)
TargetRange(sp) == sp.target_start..(sp.target_end - 1)

\* positions outside every span
UnspannedSource ==
  {i \in 0..(Len(source_tokens) - 1) :
     \A k \in 1..Len(spans) : i \notin SourceRange(spans[k])}
UnspannedTarget ==
  {j \in 0..(Len(target_tokens) - 1) :
     \A k \in 1..Len(spans) : j \notin TargetRange(spans[k])}

\* the alignment points without the appended sentence end
MatchedPoints == {align[k] : k \in 1..(Len(align) - 1)}

\* C1: the spans of get_edit_spans(S, T) lie inside the two sequences, do not
\* overlap and increase strictly in source and in target order; the source
\* positions are partitioned into the span ranges and the matched positions
\* (the alignment points), likewise the target positions, with as many
\* matched positions on one side as on the other.
C1_SpansPartition ==
  pc = "done" =>
    /\ \A k \in 1..Len(spans) :
         /\ 0 <= spans[k].source_start
         /\ spans[k].source_start <= spans[k].source_end
         /\ spans[k].source_end <= Len(source_tokens)
         /\ 0 <= spans[k].target_start
         /\ spans[k].target_start <= spans[k].target_end
         /\ spans[k].target_end <= Len(target_tokens)
    /\ \A k \in 1..(Len(spans) - 1) :
         /\ spans[k].source_end <= spans[k + 1].source_start
         /\ spans[k].target_end <= spans[k + 1].target_start
         /\ spans[k].source_start < spans[k + 1].source_start
         /\ spans[k].target_start < spans[k + 1].target_start
    /\ UnspannedSource = {p[1] : p \in MatchedPoints}
    /\ UnspannedTarget = {p[2] : p \in MatchedPoints}
    /\ Cardinality(UnspannedSource) = Cardinality(UnspannedTarget)
    /\ Cardinality(UnspannedSource) = Cardinality(MatchedPoints)

\* two spans with a matched pair of tokens between them
C1_Witness ==
  /\ pc = "done"
  /\ Len(spans) >= 2
  /\ spans[1].source_end < spans[2].source_start
  /\ spans[1].source_start < spans[1].source_end
  /\ spans[2].target_start < spans[2].target_end

\* C2: no span returned by get_edit_spans has both ranges empty.
C2_NoEmptySpan ==
  pc = "done" =>
    \A k \in 1..Len(spans) :
      \/ spans[k].source_start < spans[k].source_end
      \/ spans[k].target_start < spans[k].target_end

\* a span follows two adjacent alignment points
C2_Witness ==
  /\ pc = "done"
  /\ Len(align) >= 3
  /\ align[2] = <<align[1][1] + 1, align[1][2] + 1>>
  /\ Len(spans) >= 1
  /\ spans[1].source_start >= 2

\* C3: aligning a sequence against one with the same token texts in the same
\* order returns no span.
C3_SameTextsNoSpans ==
  (pc = "done" /\ Texts(source_tokens) = Texts(target_tokens)) => spans = <<>>

\* same texts, other lemma and part of speech
C3_Witness ==
  /\ pc = "done"
  /\ Len(source_tokens) >= 2
  /\ Texts(source_tokens) = Texts(target_tokens)
  /\ source_tokens # target_tokens
  /\ spans = <<>>

\* C4: an empty source against a non-empty target gives one insertion of
\* all of the target; a non-empty source against an empty target gives one
\* deletion of all of the source.
C4_EmptySide ==
  pc = "done" =>
    /\ (source_tokens = <<>> /\ target_tokens # <<>>) =>
         spans = <<EditSpan(0, 0, 0, Len(target_tokens))>>
    /\ (source_tokens # <<>> /\ target_tokens = <<>>) =>
         spans = <<EditSpan(0, Len(source_tokens), 0, 0)>>

C4_Witness ==
  /\ pc = "done"
  /\ source_tokens = <<>>
  /\ Len(target_tokens) >= 2
  /\ Len(spans) = 1
  /\ spans[1].target_end = Len(target_tokens)

\* ---------------------------------------------------- Annotator: claims

\* C5: an annotate() call made before any initialize() call has returned
\* raises "Annotator not initialized." without running the tokenizer, and
\* an Annotation is returned only after an initialize() call has returned.
C5_AnnotateNeedsInitialize ==
  /\ (last_call.op = "annotate" /\ ~init_completed) =>
       /\ raised = NotInitializedError
       /\ nlp_calls = 0
       /\ annotation = NoAnnotation
  /\ annotation # NoAnnotation => init_completed

\* annotate() after an initialize() that raised once the pipeline was loaded
C5_Witness ==
  /\ last_call.op = "annotate"
  /\ ~init_completed
  /\ _nlp = "Language"
  /\ last_call.target_sentences.kind = "list"
  /\ last_call.target_sentences.value # <<>>
  /\ raised = NotInitializedError

\* C6: on an initialized Annotator, annotate() with a single string as
\* target_sentences raises the invalid-argument error before the tokenizer
\* runs and before an Annotation is built; with a sequence of strings it
\* does not raise that error.
C6_StringTargetsRejected ==
  (last_call.op = "annotate" /\ _initialized) =>
    /\ last_call.target_sentences.kind = "str" =>
         /\ raised = NotAListError
         /\ nlp_calls = 0
         /\ annotation = NoAnnotation
    /\ last_call.target_sentences.kind = "list" => raised # NotAListError

C6_Witness ==
  /\ last_call.op = "annotate"
  /\ _initialized
  /\ last_call.target_sentences.kind = "str"
  /\ Len(last_call.target_sentences.value) = 2
  /\ raised = NotAListError

\* --------------------------------------------------- classifier: claims

SrcRegular == get_regular_tokens(span_source)
TgtRegular == get_regular_tokens(span_target)

OrthCond == _is_orth_error(span_source, span_target)
WoCond == _is_wo_error(span_source, span_target)
PunctCond == _is_punct_error(span_source, span_target)
NumCond == _is_orth_error(SrcRegular, TgtRegular)
NoEarlyRule == ~OrthCond /\ ~WoCond /\ ~PunctCond /\ ~NumCond

\* the call went through _get_one2one_tag
InOne2One ==
  \E rs \in {SrcRegular}, rt \in {TgtRegular} :
    /\ Len(rs) = 1
    /\ Len(rt) = 1
    /\ ~_is_orth_error(rs, rt)
    /\ ~OrthCond /\ ~WoCond /\ ~PunctCond

\* the call went through _get_two_sided_tag, directly or from the 1:1 rule
InTwoSided ==
  \E rs \in {SrcRegular}, rt \in {TgtRegular} :
    /\ rs # <<>>
    /\ rt # <<>>
    /\ ~_is_orth_error(rs, rt)
    /\ ~OrthCond /\ ~WoCond /\ ~PunctCond
    /\ (Len(rs) = 1 /\ Len(rt) = 1) =>
         One2OneOwnTag(_aspell # "None", suggested, rs[1], rt[1]) = ""

\* C7 (as the class docstring of Annotator states it): without a speller, a
\* 1:1 replacement of different lemmas whose relative character distance is
\* below 0.3 is classified as SPELL.
C7_SpellWithoutSpeller ==
  ( /\ pc = "done"
    /\ _aspell = "None"
    /\ InOne2One
    /\ SrcRegular[1].lemma # TgtRegular[1].lemma
    /\ RelativeLevBelow(SrcRegular[1].text, TgtRegular[1].text) )
  => tag = "SPELL"

\* what the code does instead: without a speller no span is tagged SPELL
C7_NeverSpellWithoutSpeller ==
  (pc = "done" /\ _aspell = "None") => tag # "SPELL"

\* C8: the rules are tried top to bottom and the first match wins: ORTH,
\* WO, PUNCT, NUM, the one-sided rule on the non-empty side, the one-to-one
\* rule, the two-sided rule.
C8_Cascade ==
  pc = "done" =>
    IF OrthCond THEN tag = "ORTH"
    ELSE IF WoCond THEN tag = "WO"
    ELSE IF PunctCond THEN tag = "PUNCT"
    ELSE \A rs \in {SrcRegular}, rt \in {TgtRegular} :
           IF _is_orth_error(rs, rt) THEN tag = "NUM"
           ELSE /\ rs = <<>> => tag = _get_one_sided_tag(rt)
                /\ (rs # <<>> /\ rt = <<>>) => tag = _get_one_sided_tag(rs)
                /\ (Len(rs) = 1 /\ Len(rt) = 1) =>
                     tag = _get_one2one_tag(_aspell # "None", suggested, rs[1], rt[1])
                /\ (rs # <<>> /\ rt # <<>> /\ ~(Len(rs) = 1 /\ Len(rt) = 1)) =>
                     tag = _get_two_sided_tag(rs, rt)

\* a span that meets the ORTH condition and the WO condition is tagged ORTH
C8_Witness ==
  /\ pc = "done"
  /\ span_source # span_target
  /\ OrthCond
  /\ WoCond
  /\ PunctCond
  /\ tag = "ORTH"

\* the target texts are a re-ordering of the source texts
IsReordering(src, tgt) ==
  /\ Len(src) = Len(tgt)
  /\ Texts(src) # Texts(tgt)
  /\ \A i \in 1..Len(src) :
       Cardinality({j \in 1..Len(src) : src[j].text = src[i].text})
         = Cardinality({j \in 1..Len(tgt) : tgt[j].text = src[i].text})

\* C9 as stated: every span whose target tokens are a re-ordering of its
\* source tokens is classified as WO.
C9_ReorderingIsWO ==
  (pc = "done" /\ IsReordering(span_source, span_target)) => tag = "WO"

\* C9 as amended: such a span is classified as WO unless the lower-cased
\* concatenations of the two sides are equal, and then as ORTH.
C9_ReorderingIsWOUnlessOrth ==
  (pc = "done" /\ IsReordering(span_source, span_target)) =>
    tag = IF OrthCond THEN "ORTH" ELSE "WO"

C9_Witness ==
  /\ pc = "done"
  /\ IsReordering(span_source, span_target)
  /\ ~OrthCond
  /\ tag = "WO"

\* the VERB tokens paired by position, those of equal lemma kept
KeptVerbPairs == _match_up_pos_tokens(SrcRegular, TgtRegular, "VERB")

TenseDiffers(pair) == Join(pair[1].Tense) # Join(pair[2].Tense)
AgreementDiffers(pair) ==
  /\ Join(pair[1].Number) # Join(pair[2].Number)
  /\ Join(pair[1].Person) # Join(pair[2].Person)

BothVerbal == _is_verbal_span(SrcRegular) /\ _is_verbal_span(TgtRegular) /\ InTwoSided

\* C10 as stated: VERB:TENSE if any kept pair differs in Tense, otherwise
\* VERB:SVA if any kept pair differs in Number and in Person, otherwise VERB.
C10_AnyTenseFirst ==
  (pc = "done" /\ BothVerbal) =>
    tag = IF \E k \in 1..Len(KeptVerbPairs) : TenseDiffers(KeptVerbPairs[k])
          THEN "VERB:TENSE"
          ELSE IF \E k \in 1..Len(KeptVerbPairs) : AgreementDiffers(KeptVerbPairs[k])
               THEN "VERB:SVA"
          ELSE "VERB"

\* C10 as amended: the kept pairs are examined in order and the first one
\* that differs in Tense, or in both Number and Person, decides: VERB:TENSE
\* if it differs in Tense, else VERB:SVA; VERB if no kept pair differs so.
C10_FirstDifferingPair ==
  (pc = "done" /\ BothVerbal) =>
    \A pairs \in {KeptVerbPairs} :
      \A differing \in {{k \in 1..Len(pairs) :
                           TenseDiffers(pairs[k]) \/ AgreementDiffers(pairs[k])}} :
        IF differing = {} THEN tag = "VERB"
        ELSE \E first \in differing :
               /\ \A i \in differing : first <= i
               /\ tag = IF TenseDiffers(pairs[first]) THEN "VERB:TENSE"
                        ELSE "VERB:SVA"

\* an earlier pair differs in Number and Person, a later one in Tense
C10_Witness ==
  /\ pc = "done"
  /\ BothVerbal
  /\ Len(KeptVerbPairs) = 2
  /\ ~TenseDiffers(KeptVerbPairs[1])
  /\ AgreementDiffers(KeptVerbPairs[1])
  /\ TenseDiffers(KeptVerbPairs[2])
  /\ tag = "VERB:SVA"

\* the spans are neither both verbal nor both nominal and the target tokens
\* share one part-of-speech tag
PosBasedCase(rs, rt) ==
  /\ ~(_is_verbal_span(rs) /\ _is_verbal_span(rt))
  /\ ~(_is_noun_span(rs) /\ _is_noun_span(rt))
  /\ Cardinality(PosSet(rt)) = 1

\* the shared part-of-speech tag of the tokens, AUX mapped to VERB
SharedPosTag(tokens) ==
  LET pos == CHOOSE p \in PosSet(tokens) : TRUE
  IN IF pos = "AUX" THEN "VERB" ELSE pos

\* C11 as stated: in the two-sided rule, when the spans are neither both
\* verbal nor both nominal and the target tokens share one part-of-speech
\* tag, the tag is that tag, AUX mapped to VERB; so VERB when every source
\* and every target token is AUX.
C11_SharedTargetPos ==
  pc = "done" =>
    \A rs \in {SrcRegular}, rt \in {TgtRegular} :
      (PosBasedCase(rs, rt) /\ InTwoSided) => tag = SharedPosTag(rt)

\* C11 as amended: the same, unless every source and every target token is
\* AUX, and then the tag is VERB:TENSE.
C11_SharedTargetPosUnlessAux ==
  pc = "done" =>
    \A rs \in {SrcRegular}, rt \in {TgtRegular} :
      (PosBasedCase(rs, rt) /\ InTwoSided) =>
        tag = IF _is_aux_span(rs) /\ _is_aux_span(rt) THEN "VERB:TENSE"
              ELSE SharedPosTag(rt)

\* an all-AUX target opposite a source that is not all AUX is tagged VERB
C11_Witness ==
  /\ pc = "done"
  /\ InTwoSided
  /\ PosBasedCase(SrcRegular, TgtRegular)
  /\ _is_aux_span(TgtRegular)
  /\ ~_is_aux_span(SrcRegular)
  /\ tag = "VERB"

\* ---------------------------------------------------- formatters: claims

\* the annotator id a formatted A line ends with
LineId(line) == line.args[Len(line.args)]

\* the positions of the lines that carry the annotator id
LinesOfId(lines, annotator_id) ==
  {i \in 2..(Len(lines) - 1) : LineId(lines[i]) = annotator_id}

\* line i of the lines is the A line of the edit span for that annotator id
IsLineOfSpan(line, source_doc, edit_span, annotator_id) ==
  /\ line.fmt = _M2_LINE
  /\ Len(line.args) = 5
  /\ line.args[2] = IF formatter_name = "M2_TOK" THEN edit_span.source_end
                    ELSE SpanEndChar(source_doc, edit_span.source_start,
                                     edit_span.source_end)
  /\ line.args[3] = get_label(edit_span)
  /\ line.args[5] = annotator_id

\* C12: the M2_CHAR and M2_TOK formatters emit the S line first, then for
\* each target in order, with its 0-based index as annotator id, exactly
\* one no-op line if the target has no edit span and otherwise exactly one
\* A line per edit span in span order, and last a blank line.
C12_M2Lines ==
  pc = "done" =>
    \A lines \in {m2_lines}, targets \in {formatted.target_sentences} :
      /\ Len(lines) >= 2
      /\ lines[1].fmt = "S %s"
      /\ lines[Len(lines)].fmt = ""
      /\ lines[Len(lines)].args = <<>>
      /\ \A i \in 2..(Len(lines) - 1) :
           /\ lines[i].fmt \in {_M2_LINE, _NOOP_M2_LINE}
           /\ LineId(lines[i]) \in 0..(Len(targets) - 1)
           /\ i > 2 => LineId(lines[i - 1]) <= LineId(lines[i])
      /\ \A k \in 1..Len(targets) :
           \A at \in {LinesOfId(lines, k - 1)}, edit_spans \in {targets[k].edit_spans} :
             IF edit_spans = <<>>
             THEN /\ Cardinality(at) = 1
                  /\ \A i \in at : /\ lines[i].fmt = _NOOP_M2_LINE
                                    /\ lines[i].args = <<k - 1>>
             ELSE /\ Cardinality(at) = Len(edit_spans)
                  /\ \A i \in at :
                       IsLineOfSpan(lines[i], formatted.source_doc,
                                    edit_spans[1 + Cardinality({j \in at : j < i})],
                                    k - 1)

\* a first target without edit spans gets the no-op line with annotator id
\* 0, the second target one A line per edit span with annotator id 1
C12_Witness ==
  /\ pc = "done"
  /\ Len(formatted.target_sentences) = 2
  /\ formatted.target_sentences[1].edit_spans = <<>>
  /\ Len(formatted.target_sentences[2].edit_spans) = 2
  /\ Len(m2_lines) = 5
  /\ m2_lines[2].fmt = _NOOP_M2_LINE
  /\ m2_lines[2].args = <<0>>
  /\ LineId(m2_lines[3]) = 1
  /\ LineId(m2_lines[4]) = 1

\* ------------------------------------------- Classifier.classify: claims

\* the error types of the class docstring and VERB, NOUN, OTHER
ClosedTags ==
  { "NUM", "MORPH", "NOUN:INFL", "NOUN:NUM", "ORTH", "PUNCT", "SPELL",
    "VERB:INFL", "VERB:SVA", "VERB:TENSE", "WO", "VERB", "NOUN", "OTHER" }

\* the part-of-speech names of the tokens of an edit span
SpanPosNames(sp) ==
  PosSet(Slice(source_tokens, sp.source_start, sp.source_end))
    \cup PosSet(Slice(target_tokens, sp.target_start, sp.target_end))

\* C13: every edit span the aligner produces gets, with or without a
\* speller, a tag that is a part-of-speech name of one of its tokens or one
\* of NUM, MORPH, NOUN:INFL, NOUN:NUM, ORTH, PUNCT, SPELL, VERB:INFL,
\* VERB:SVA, VERB:TENSE, WO, VERB, NOUN, OTHER; classify assigns the tag
\* of every span it returns exactly once, so none keeps the default UNK.
C13_ClassificationTotal ==
  pc = "done" =>
    /\ Len(tag_writes) = Len(spans)
    /\ \A k \in 1..Len(spans) :
         /\ spans[k].tag \in ClosedTags \cup SpanPosNames(spans[k])
         /\ spans[k].tag # "UNK"
         /\ tag_writes[k] = 1

\* the same set of tags for any span given to classify_single_span
C13_TagOfAnySpan ==
  pc = "done" => tag \in ClosedTags \cup PosSet(span_source) \cup PosSet(span_target)

\* a span that matches no specific rule carries OTHER
C13_Witness ==
  /\ pc = "done"
  /\ _aspell = "Speller"
  /\ Len(spans) = 1
  /\ spans[1].tag = "OTHER"
  /\ tag_writes = <<1>>

\* --------------------------------------------- one-to-one rule: claims

\* the speller returned a suggestion and the first one differs
\* case-insensitively from the source text
SpellerAnomaly ==
  /\ suggested # <<>>
  /\ Lower(suggested[1]) # Lower(SrcRegular[1].text)

\* some suggestion equals the target text case-insensitively
TargetSuggested ==
  \E k \in 1..Len(suggested) : Lower(suggested[k]) = Lower(TgtRegular[1].text)

\* C14: in the one-to-one rule, on a speller anomaly the tag is NOUN:INFL,
\* VERB:INFL or MORPH when the lemmas are equal, and SPELL when they differ
\* and a suggestion equals the target text case-insensitively or the
\* relative character distance is below 0.3; without anomaly the tag is
\* MORPH when the lemmas are equal and the parts of speech differ; in every
\* remaining case it is the tag of the two-sided rule on the two tokens.
C14_One2One ==
  (pc = "done" /\ InOne2One) =>
    \A s \in {SrcRegular[1]}, t \in {TgtRegular[1]}, anomaly \in {SpellerAnomaly} :
      tag = IF anomaly /\ s.lemma = t.lemma
            THEN IF s.pos = "NOUN" /\ t.pos = "NOUN" THEN "NOUN:INFL"
                 ELSE IF s.pos = "VERB" /\ t.pos = "VERB" THEN "VERB:INFL"
                 ELSE "MORPH"
            ELSE IF /\ anomaly
                    /\ s.lemma # t.lemma
                    /\ (TargetSuggested \/ RelativeLevBelow(s.text, t.text))
                 THEN "SPELL"
            ELSE IF ~anomaly /\ s.lemma = t.lemma /\ s.pos # t.pos THEN "MORPH"
            ELSE _get_two_sided_tag(<<s>>, <<t>>)

\* SPELL for a target that a suggestion equals only up to case, at a
\* relative character distance of 0.3 or more
C14_Witness ==
  /\ pc = "done"
  /\ InOne2One
  /\ SpellerAnomaly
  /\ SrcRegular[1].lemma # TgtRegular[1].lemma
  /\ TargetSuggested
  /\ \A k \in 1..Len(suggested) : suggested[k] # TgtRegular[1].text
  /\ ~RelativeLevBelow(SrcRegular[1].text, TgtRegular[1].text)
  /\ tag = "SPELL"

\* ------------------------------------------ levenshtein_matrix: claims

\* D[i][j] of the matrix, i and j counted from 0
D(i, j) == lev_mat[i + 1][j + 1]

\* C15: levenshtein_matrix returns an (m+1) x (n+1) matrix D with
\* D[0][j] = j, D[i][0] = i and D[i][j] = min(D[i-1][j] + 1, D[i][j-1] + 1,
\* D[i-1][j-1] + sub_cost(source[i-1], target[j-1])) for any cost function,
\* and levenshtein_distance returns D[m][n]; costs in tenths.
C15_Recurrence ==
  pc = "done" =>
    \A m \in {Len(source_tokens)}, n \in {Len(target_tokens)} :
      /\ Len(lev_mat) = m + 1
      /\ \A i \in 0..m : Len(lev_mat[i + 1]) = n + 1
      /\ \A j \in 0..n : D(0, j) = 10 * j
      /\ \A i \in 0..m : D(i, 0) = 10 * i
      /\ \A i \in 1..m, j \in 1..n :
           \A above \in {D(i - 1, j) + 10}, left \in {D(i, j - 1) + 10},
              diagonal \in {D(i - 1, j - 1)
                              + sub_cost[<<source_tokens[i], target_tokens[j]>>]} :
             /\ D(i, j) \in {above, left, diagonal}
             /\ D(i, j) <= above
             /\ D(i, j) <= left
             /\ D(i, j) <= diagonal
      /\ lev_distance = D(m, n)

\* a cell that only the substitution term explains, with a cost that is
\* neither 0 nor that of an insertion
C15_Witness ==
  /\ pc = "done"
  /\ Len(source_tokens) >= 2
  /\ Len(target_tokens) >= 2
  /\ sub_cost[<<source_tokens[2], target_tokens[2]>>] = 3
  /\ D(2, 2) = D(1, 1) + 3
  /\ D(2, 2) < D(1, 2) + 10
  /\ D(2, 2) < D(2, 1) + 10
  /\ lev_distance = D(Len(source_tokens), Len(target_tokens))
  /\ lev_distance > 0

\* ------------------------------------------------- matched tokens: claims

\* the k-th smallest position of a set of positions
KthOf(positions, k) ==
  CHOOSE p \in positions : Cardinality({q \in positions : q < p}) = k - 1

\* C16: the positions get_edit_spans leaves outside every span correspond
\* one to one in order, the k-th on the source side to the k-th on the
\* target side; each such pair was recorded by the backtrace at
\* substitution cost zero and its two tokens have identical text.
C16_MatchedTextsIdentical ==
  pc = "done" =>
    \A us \in {UnspannedSource}, ut \in {UnspannedTarget} :
      /\ Cardinality(us) = Cardinality(ut)
      /\ \A k \in 1..Cardinality(us) :
           \A i \in {KthOf(us, k)}, j \in {KthOf(ut, k)} :
             /\ <<i, j>> \in MatchedPoints
             /\ _token_sub_cost(source_tokens[i + 1], target_tokens[j + 1]) = 0
             /\ source_tokens[i + 1].text = target_tokens[j + 1].text

\* a matched pair before a one-token span whose tokens differ only in case
C16_Witness ==
  /\ pc = "done"
  /\ <<0, 0>> \in MatchedPoints
  /\ Len(spans) = 1
  /\ spans[1].source_start = 1
  /\ spans[1].source_end = 2
  /\ spans[1].target_start = 1
  /\ spans[1].target_end = 2
  /\ source_tokens[2].text # target_tokens[2].text
  /\ Lower(source_tokens[2].text) = Lower(target_tokens[2].text)

\* --------------------------------- c4200m_make_sentence_pairs: claims

\* the lines of a file are in ascending order of their md5
SortedByMd5(lines) ==
  \A i, j \in 1..Len(lines) : i < j => lines[i][1] <= lines[j][1]

\* both files are well-formed and sorted
SortedInputs ==
  /\ \A k \in 1..Len(edits_tsv) : Len(edits_tsv[k]) = 4
  /\ SortedByMd5(edits_tsv)
  /\ SortedByMd5(target_sentence_tsv)

\* the edits of the lines of the edits file with the md5, in file order
RECURSIVE EditsOf(_, _)
EditsOf(md5, k) ==
  IF k > Len(edits_tsv) THEN <<>>
  ELSE IF edits_tsv[k][1] = md5
       THEN <<<<edits_tsv[k][2], edits_tsv[k][3], edits_tsv[k][4]>>>> \o EditsOf(md5, k + 1)
  ELSE EditsOf(md5, k + 1)

\* one line <<source, target>> for each target line from line k on whose
\* md5 has edits, in the order of the target file
RECURSIVE ExpectedPairs(_)
ExpectedPairs(k) ==
  IF k > Len(target_sentence_tsv) THEN <<>>
  ELSE LET md5 == target_sentence_tsv[k][1]
           target_text == target_sentence_tsv[k][2]
       IN IF \E e \in 1..Len(edits_tsv) : edits_tsv[e][1] = md5
          THEN <<<<apply_edits(EditsOf(md5, 1), target_text), target_text>>>>
                 \o ExpectedPairs(k + 1)
          ELSE ExpectedPairs(k + 1)

\* some target line has an md5 above every md5 of the edits file
TargetBeyondEdits ==
  \E k \in 1..Len(target_sentence_tsv) :
    \A e \in 1..Len(edits_tsv) : edits_tsv[e][1] < target_sentence_tsv[k][1]

\* C17: for sorted target and edits files, an empty edits file and target
\* md5s above every edit md5 included, main ends without an exception after
\* writing one line "<source>\t<target>" for each target line whose md5
\* has edits, in target order, the source being the target with these
\* edits applied, and nothing for the other target lines.
C17_EndsNormallyWithPairs ==
  (pc = "done" /\ SortedInputs) =>
    /\ main_raised = "None"
    /\ output_tsv = ExpectedPairs(1)

\* what main does on sorted files: it writes these lines, and it ends with
\* an exception exactly when a target md5 is above every edit md5
\* (UnboundLocalError for an edits file without edits, else StopIteration)
C17_RaisesWhenEditsRunOut ==
  (pc = "done" /\ SortedInputs) =>
    /\ output_tsv = ExpectedPairs(1)
    /\ main_raised = IF ~TargetBeyondEdits THEN "None"
                     ELSE IF edits_tsv = <<>> THEN "UnboundLocalError"
                     ELSE "StopIteration"

====
